---- MODULE Spec2Model ----
(***************************************************************************)
(* Model of go/vt/sqlannotation/sqlannotation.go: annotation of DML        *)
(* statements with keyspace-id comments and the parsing of them.           *)
(*                                                                         *)
(* A Go string is a sequence of one-character strings, a []byte is a       *)
(* sequence of integers in 0..255.  Indices returned by the strings.*      *)
(* helpers are Go's: 0-based, -1 for "not found".                          *)
(***************************************************************************)
EXTENDS Integers, Sequences, FiniteSets, TLC

VARIABLES sql, calls, ret, count, warnings, limit

vars == <<sql, calls, ret, count, warnings, limit>>

(***************************************************************************)
(* Bounds of the model.                                                    *)
(***************************************************************************)
\* an input statement is the concatenation of at most MaxPieces pieces
MaxPieces == 3
\* number of calls made in a row, each on the previous call's output
MaxCalls == 2

(***************************************************************************)
(* Literals of the source.                                                 *)
(***************************************************************************)
filteredReplicationUnfriendlyAnnotation ==
    <<"/", "*", " ", "v", "t", "g", "a", "t", "e", ":", ":", " ", "f", "i", "l",
      "t", "e", "r", "e", "d", "_", "r", "e", "p", "l", "i", "c", "a", "t", "i",
      "o", "n", "_", "u", "n", "f", "r", "i", "e", "n", "d", "l", "y", " ", "*", "/">>

\* the leftDelim ExtractKeySpaceID searches for
keyspaceIDLeftDelim ==
    <<"/", "*", " ", "v", "t", "g", "a", "t", "e", ":", ":", " ", "k", "e", "y",
      "s", "p", "a", "c", "e", "_", "i", "d", ":">>

\* the rightDelim ExtractKeySpaceID searches for
keyspaceIDRightDelim == <<" ">>

\* the format "%s /* vtgate:: keyspace_id:%s */%s": the text between the
\* first and the second verb, and between the second and the third
formatBeforeHex ==
    <<" ", "/", "*", " ", "v", "t", "g", "a", "t", "e", ":", ":", " ", "k", "e",
      "y", "s", "p", "a", "c", "e", "_", "i", "d", ":">>

formatAfterHex == <<" ", "*", "/">>

insert == <<"i", "n", "s", "e", "r", "t">>
update == <<"u", "p", "d", "a", "t", "e">>
delete == <<"d", "e", "l", "e", "t", "e">>

\* the values of ExtractKeySpaceIDError.Kind, and the nil error
ExtractKeySpaceIDParseError == "ParseError"
ExtractKeySpaceIDReplicationUnfriendlyError == "ReplicationUnfriendlyError"
NilError == "nil"

\* a nil []byte, and a non-nil one
NilBytes == [null |-> TRUE]
Bytes(b) == [null |-> FALSE, bytes |-> b]

(***************************************************************************)
(* The library functions the source calls.                                 *)
(***************************************************************************)
Min(S) == CHOOSE x \in S : \A y \in S : x <= y

\* s[from:to] of Go
Slice(s, from, to) == SubSeq(s, from + 1, to)

\* unicode.IsSpace, on the characters of the model
IsSpace(c) == c \in {" ", "\t", "\n", "\r", "\f"}

UpperCase == <<"A", "B", "C", "D", "E", "F", "G", "H", "I", "J", "K", "L", "M",
               "N", "O", "P", "Q", "R", "S", "T", "U", "V", "W", "X", "Y", "Z">>
LowerCase == <<"a", "b", "c", "d", "e", "f", "g", "h", "i", "j", "k", "l", "m",
               "n", "o", "p", "q", "r", "s", "t", "u", "v", "w", "x", "y", "z">>

\* the case folding strings.EqualFold compares under
Fold(c) ==
    IF \E i \in 1..Len(UpperCase) : UpperCase[i] = c
    THEN LowerCase[CHOOSE i \in 1..Len(UpperCase) : UpperCase[i] = c]
    ELSE c

\* strings.EqualFold
EqualFold(s, t) ==
    /\ Len(s) = Len(t)
    /\ \A i \in 1..Len(s) : Fold(s[i]) = Fold(t[i])

\* strings.Index
Index(s, substr) ==
    LET hits == {i \in 0..(Len(s) - Len(substr)) :
                    \A j \in 1..Len(substr) : s[i + j] = substr[j]}
    IN  IF hits = {} THEN -1 ELSE Min(hits)

\* strings.IndexFunc(s, unicode.IsSpace)
IndexFunc(s) ==
    LET hits == {i \in 0..(Len(s) - 1) : IsSpace(s[i + 1])}
    IN  IF hits = {} THEN -1 ELSE Min(hits)

\* strings.TrimLeftFunc(s, unicode.IsSpace)
TrimLeftFunc(s) ==
    LET keep == {i \in 0..(Len(s) - 1) : ~IsSpace(s[i + 1])}
    IN  IF keep = {} THEN <<>> ELSE Slice(s, Min(keep), Len(s))

HexTable == <<"0", "1", "2", "3", "4", "5", "6", "7",
              "8", "9", "a", "b", "c", "d", "e", "f">>

UpperHexTable == <<"0", "1", "2", "3", "4", "5", "6", "7",
                   "8", "9", "A", "B", "C", "D", "E", "F">>

\* mutant: encodes with upper-case digits
EncodeToString_Upper(src) ==
    [i \in 1..(2 * Len(src)) |->
        IF i % 2 = 1 THEN UpperHexTable[(src[(i + 1) \div 2] \div 16) + 1]
                     ELSE UpperHexTable[(src[i \div 2] % 16) + 1]]

\* hex.EncodeToString
EncodeToString(src) ==
    [i \in 1..(2 * Len(src)) |->
        IF i % 2 = 1 THEN HexTable[(src[(i + 1) \div 2] \div 16) + 1]
                     ELSE HexTable[(src[i \div 2] % 16) + 1]]

\* hex.fromHexChar: the value of a hexadecimal digit, -1 for any other character
FromHexChar(c) ==
    IF \E i \in 1..16 : HexTable[i] = c
    THEN (CHOOSE i \in 1..16 : HexTable[i] = c) - 1
    ELSE IF c \in {"A", "B", "C", "D", "E", "F"}
    THEN (CHOOSE i \in 11..16 : HexTable[i] = Fold(c)) - 1
    ELSE -1

\* hex.DecodeString: the bytes and whether the error is nil
DecodeString(s) ==
    IF Len(s) % 2 = 1 \/ \E i \in 1..Len(s) : FromHexChar(s[i]) = -1
    THEN [bytes |-> <<>>, ok |-> FALSE]
    ELSE [bytes |-> [i \in 1..(Len(s) \div 2) |->
                        16 * FromHexChar(s[2 * i - 1]) + FromHexChar(s[2 * i])],
          ok |-> TRUE]

(***************************************************************************)
(* The functions of the package.                                           *)
(***************************************************************************)
\* mutant: compares the first word with the keywords case-sensitively
IsDML_CaseSensitive(s) ==
    LET trimmed == TrimLeftFunc(s)
        end == IndexFunc(trimmed)
    IN  IF end = -1
        THEN FALSE
        ELSE Slice(trimmed, 0, end) \in {insert, update, delete}

IsDML(s) ==
    LET trimmed == TrimLeftFunc(s)
        end == IndexFunc(trimmed)
    IN  IF end = -1
        THEN FALSE
        ELSE LET word == Slice(trimmed, 0, end)
             IN  \/ EqualFold(word, insert)
                 \/ EqualFold(word, update)
                 \/ EqualFold(word, delete)

\* mutant: no space between the hexadecimal text and the closing of the comment
AddKeyspaceID_NoSpaceAfterHex(s, keyspaceID, trailingComments) ==
    s \o formatBeforeHex \o EncodeToString(keyspaceID) \o <<"*", "/">>
      \o trailingComments

AddKeyspaceID(s, keyspaceID, trailingComments) ==
    s \o formatBeforeHex \o EncodeToString(keyspaceID) \o formatAfterHex
      \o trailingComments

\* mutant: takes the first identifier whenever there is one
AnnotateIfDML_FirstOfMany(s, keyspaceIDs) ==
    IF ~IsDML(s)
    THEN [out |-> s, add |-> 0, warn |-> FALSE]
    ELSE IF Len(keyspaceIDs) >= 1
    THEN [out |-> AddKeyspaceID(s, keyspaceIDs[1], <<>>), add |-> 0, warn |-> FALSE]
    ELSE [out |-> s \o filteredReplicationUnfriendlyAnnotation,
          add |-> 1, warn |-> TRUE]

\* mutant: counts every DML statement, not only the unfriendly ones
AnnotateIfDML_CountsEveryDML(s, keyspaceIDs) ==
    IF ~IsDML(s)
    THEN [out |-> s, add |-> 0, warn |-> FALSE]
    ELSE IF Len(keyspaceIDs) = 1
    THEN [out |-> AddKeyspaceID(s, keyspaceIDs[1], <<>>), add |-> 1, warn |-> FALSE]
    ELSE [out |-> s \o filteredReplicationUnfriendlyAnnotation,
          add |-> 1, warn |-> TRUE]

\* mutant: annotates without asking whether the statement is DML
AnnotateIfDML_NoDMLCheck(s, keyspaceIDs) ==
    IF Len(keyspaceIDs) = 1
    THEN [out |-> AddKeyspaceID(s, keyspaceIDs[1], <<>>), add |-> 0, warn |-> FALSE]
    ELSE [out |-> s \o filteredReplicationUnfriendlyAnnotation,
          add |-> 1, warn |-> TRUE]

\* mutant: a space before the unfriendly annotation, as before the keyspace one
AnnotateIfDML_SpaceBeforeSentinel(s, keyspaceIDs) ==
    IF ~IsDML(s)
    THEN [out |-> s, add |-> 0, warn |-> FALSE]
    ELSE IF Len(keyspaceIDs) = 1
    THEN [out |-> AddKeyspaceID(s, keyspaceIDs[1], <<>>), add |-> 0, warn |-> FALSE]
    ELSE [out |-> s \o <<" ">> \o filteredReplicationUnfriendlyAnnotation,
          add |-> 1, warn |-> TRUE]

\* mutant: with several identifiers, the first one's annotation and the
\* unfriendly one
AnnotateIfDML_KeyspaceAndSentinel(s, keyspaceIDs) ==
    IF ~IsDML(s)
    THEN [out |-> s, add |-> 0, warn |-> FALSE]
    ELSE IF Len(keyspaceIDs) = 1
    THEN [out |-> AddKeyspaceID(s, keyspaceIDs[1], <<>>), add |-> 0, warn |-> FALSE]
    ELSE IF Len(keyspaceIDs) = 0
    THEN [out |-> s \o filteredReplicationUnfriendlyAnnotation,
          add |-> 1, warn |-> TRUE]
    ELSE [out |-> AddKeyspaceID(s, keyspaceIDs[1], <<>>)
                      \o filteredReplicationUnfriendlyAnnotation,
          add |-> 1, warn |-> TRUE]

\* The string AnnotateIfDML returns, what it adds to
\* filteredReplicationUnfriendlyStatementsCount, and whether it calls the
\* throttled logger.
AnnotateIfDML(s, keyspaceIDs) ==
    IF ~IsDML(s)
    THEN [out |-> s, add |-> 0, warn |-> FALSE]
    ELSE IF Len(keyspaceIDs) = 1
    THEN [out |-> AddKeyspaceID(s, keyspaceIDs[1], <<>>), add |-> 0, warn |-> FALSE]
    ELSE [out |-> s \o filteredReplicationUnfriendlyAnnotation,
          add |-> 1, warn |-> TRUE]

\* mutant: the match starts at the start of leftDelim, not after it
extractStringBetween_FromDelimStart(source, leftDelim, rightDelim) ==
    LET leftDelimStart == Index(source, leftDelim)
    IN  IF leftDelimStart = -1
        THEN [match |-> <<>>, found |-> FALSE]
        ELSE LET matchStart == leftDelimStart
                 matchEnd == Index(Slice(source, matchStart, Len(source)), rightDelim)
             IN  IF matchEnd # -1
                 THEN [match |-> Slice(source, matchStart, matchStart + matchEnd),
                       found |-> TRUE]
                 ELSE [match |-> Slice(source, matchStart, Len(source)),
                       found |-> TRUE]

extractStringBetween(source, leftDelim, rightDelim) ==
    LET leftDelimStart == Index(source, leftDelim)
    IN  IF leftDelimStart = -1
        THEN [match |-> <<>>, found |-> FALSE]
        ELSE LET matchStart == leftDelimStart + Len(leftDelim)
                 matchEnd == Index(Slice(source, matchStart, Len(source)), rightDelim)
             IN  IF matchEnd # -1
                 THEN [match |-> Slice(source, matchStart, matchStart + matchEnd),
                       found |-> TRUE]
                 ELSE [match |-> Slice(source, matchStart, Len(source)),
                       found |-> TRUE]

\* mutant: looks at the unfriendly annotation first
ExtractKeySpaceID_UnfriendlyFirst(s) ==
    LET between == extractStringBetween(s, keyspaceIDLeftDelim, keyspaceIDRightDelim)
        hasUnfriendlyAnnotation ==
            Index(s, filteredReplicationUnfriendlyAnnotation) # -1
    IN  IF hasUnfriendlyAnnotation
        THEN [keyspaceID |-> NilBytes,
              err |-> ExtractKeySpaceIDReplicationUnfriendlyError]
        ELSE IF between.found
        THEN LET decoded == DecodeString(between.match)
             IN  IF ~decoded.ok
                 THEN [keyspaceID |-> NilBytes, err |-> ExtractKeySpaceIDParseError]
                 ELSE [keyspaceID |-> Bytes(decoded.bytes), err |-> NilError]
        ELSE [keyspaceID |-> NilBytes, err |-> ExtractKeySpaceIDParseError]

ExtractKeySpaceID(s) ==
    LET between == extractStringBetween(s, keyspaceIDLeftDelim, keyspaceIDRightDelim)
        hasUnfriendlyAnnotation ==
            Index(s, filteredReplicationUnfriendlyAnnotation) # -1
    IN  IF between.found
        THEN IF hasUnfriendlyAnnotation
             THEN [keyspaceID |-> NilBytes, err |-> ExtractKeySpaceIDParseError]
             ELSE LET decoded == DecodeString(between.match)
                  IN  IF ~decoded.ok
                      THEN [keyspaceID |-> NilBytes,
                            err |-> ExtractKeySpaceIDParseError]
                      ELSE [keyspaceID |-> Bytes(decoded.bytes), err |-> NilError]
        ELSE IF hasUnfriendlyAnnotation
        THEN [keyspaceID |-> NilBytes,
              err |-> ExtractKeySpaceIDReplicationUnfriendlyError]
        ELSE [keyspaceID |-> NilBytes, err |-> ExtractKeySpaceIDParseError]

(***************************************************************************)
(* The inputs.                                                             *)
(***************************************************************************)
Pieces ==
    { insert,
      <<"U", "P", "D", "A", "T", "E">>,
      <<"D", "e", "l", "e", "t", "e">>,
      <<" ">>,
      <<"\t">>,
      <<"x">>,
      <<"A">>,
      <<"/", "*">>,
      keyspaceIDLeftDelim,
      filteredReplicationUnfriendlyAnnotation }

RECURSIVE Concat(_)
Concat(ps) == IF ps = <<>> THEN <<>> ELSE Head(ps) \o Concat(Tail(ps))

\* every concatenation of at most MaxPieces pieces
Statements ==
    UNION {{Concat(ps) : ps \in [1..n -> Pieces]} : n \in 0..MaxPieces}

\* the statements a run of several calls starts from
FirstStatements ==
    { insert \o <<" ", "x">>,
      <<"U", "P", "D", "A", "T", "E", "\t", "x">>,
      <<"x", " ", "x">> }

KeyspaceIDs == {<<>>, <<10>>, <<171, 0>>}

KeyspaceIDLists ==
    {<<>>} \cup {<<id>> : id \in KeyspaceIDs} \cup {<<(<<10>>), (<<171, 0>>)>>}

TrailingComments ==
    { <<>>,
      <<" ", "x">>,
      <<"A">>,
      filteredReplicationUnfriendlyAnnotation,
      Tail(filteredReplicationUnfriendlyAnnotation) }

(***************************************************************************)
(* The state machine: calls of the four exported functions.  sql is the    *)
(* statement the next call is made on; AnnotateIfDML and AddKeyspaceID     *)
(* hand their output on to the next call.                                  *)
(***************************************************************************)
Init ==
    /\ \/ sql \in Statements /\ limit = 1
       \/ sql \in FirstStatements /\ limit = MaxCalls
    /\ calls = <<>>
    /\ ret = <<>>
    /\ count = 0
    /\ warnings = 0

CallAnnotateIfDML ==
    /\ Len(calls) < limit
    /\ \E keyspaceIDs \in KeyspaceIDLists, throttled \in BOOLEAN :
         LET r == AnnotateIfDML(sql, keyspaceIDs)
         IN  /\ ret' = r.out
             /\ sql' = r.out
             /\ count' = count + r.add
             /\ warnings' = warnings + (IF r.warn /\ ~throttled THEN 1 ELSE 0)
             /\ calls' = Append(calls, [op |-> "AnnotateIfDML", sql |-> sql,
                                        keyspaceIDs |-> keyspaceIDs,
                                        trailingComments |-> <<>>])
    /\ UNCHANGED limit

CallAddKeyspaceID ==
    /\ Len(calls) < limit
    /\ \E keyspaceID \in KeyspaceIDs, trailingComments \in TrailingComments :
         /\ ret' = AddKeyspaceID(sql, keyspaceID, trailingComments)
         /\ sql' = ret'
         /\ calls' = Append(calls, [op |-> "AddKeyspaceID", sql |-> sql,
                                    keyspaceIDs |-> <<keyspaceID>>,
                                    trailingComments |-> trailingComments])
    /\ UNCHANGED <<count, warnings, limit>>

CallIsDML ==
    /\ Len(calls) < limit
    /\ ret' = IsDML(sql)
    /\ calls' = Append(calls, [op |-> "IsDML", sql |-> sql,
                               keyspaceIDs |-> <<>>, trailingComments |-> <<>>])
    /\ UNCHANGED <<sql, count, warnings, limit>>

CallExtractKeySpaceID ==
    /\ Len(calls) < limit
    /\ ret' = ExtractKeySpaceID(sql)
    /\ calls' = Append(calls, [op |-> "ExtractKeySpaceID", sql |-> sql,
                               keyspaceIDs |-> <<>>, trailingComments |-> <<>>])
    /\ UNCHANGED <<sql, count, warnings, limit>>

Next ==
    \/ CallAnnotateIfDML
    \/ CallAddKeyspaceID
    \/ CallIsDML
    \/ CallExtractKeySpaceID

Spec == Init /\ [][Next]_vars

(***************************************************************************)
(* Vocabulary of the properties, stated without the functions above.       *)
(***************************************************************************)
Called == calls # <<>>
Last == calls[Len(calls)]

\* sub occurs somewhere in s
Contains(s, sub) ==
    \E i \in 1..(Len(s) - Len(sub) + 1) : SubSeq(s, i, i + Len(sub) - 1) = sub

HasKeyspaceID(s) == Contains(s, keyspaceIDLeftDelim)
HasUnfriendly(s) == Contains(s, filteredReplicationUnfriendlyAnnotation)

\* the last call was AnnotateIfDML on a DML statement
AnnotatedDML == Called /\ Last.op = "AnnotateIfDML" /\ IsDML(Last.sql)

\* C1 (as stated): for every DML statement s, also one that already holds the
\* keyspace delimiter or the unfriendly sentinel, and every id,
\* ExtractKeySpaceID(AnnotateIfDML(s, [id])) is (id, nil).
C1_RoundTripEveryDML ==
    (AnnotatedDML /\ Len(Last.keyspaceIDs) = 1)
        => ExtractKeySpaceID(ret) =
               [keyspaceID |-> Bytes(Last.keyspaceIDs[1]), err |-> NilError]

\* C1 (amended): for every DML statement s that holds neither the keyspace
\* delimiter nor the unfriendly sentinel, and every id,
\* ExtractKeySpaceID(AnnotateIfDML(s, [id])) is (id, nil).
C1_RoundTripCleanDML ==
    (/\ AnnotatedDML
     /\ Len(Last.keyspaceIDs) = 1
     /\ ~HasKeyspaceID(Last.sql)
     /\ ~HasUnfriendly(Last.sql))
        => ExtractKeySpaceID(ret) =
               [keyspaceID |-> Bytes(Last.keyspaceIDs[1]), err |-> NilError]

C1_Witness ==
    /\ AnnotatedDML
    /\ Last.keyspaceIDs = <<(<<171, 0>>)>>
    /\ ~HasKeyspaceID(Last.sql)
    /\ ~HasUnfriendly(Last.sql)
    /\ Contains(Last.sql, <<"/", "*">>)
    /\ ret # Last.sql

\* C2 (as stated): for every DML statement s and every identifier list of
\* length 0 or at least 2, ExtractKeySpaceID(AnnotateIfDML(s, ids)) is
\* (nil, ReplicationUnfriendlyError).
C2_UnfriendlyEveryDML ==
    (AnnotatedDML /\ Len(Last.keyspaceIDs) # 1)
        => ExtractKeySpaceID(ret) =
               [keyspaceID |-> NilBytes,
                err |-> ExtractKeySpaceIDReplicationUnfriendlyError]

\* C2 (amended): the same for every DML statement s that does not hold the
\* keyspace delimiter.
C2_UnfriendlyNoDelimDML ==
    (AnnotatedDML /\ Len(Last.keyspaceIDs) # 1 /\ ~HasKeyspaceID(Last.sql))
        => ExtractKeySpaceID(ret) =
               [keyspaceID |-> NilBytes,
                err |-> ExtractKeySpaceIDReplicationUnfriendlyError]

C2_Witness ==
    /\ AnnotatedDML
    /\ Len(Last.keyspaceIDs) = 2
    /\ ~HasKeyspaceID(Last.sql)
    /\ HasUnfriendly(Last.sql)

\* the call is one on the unfriendly path of AnnotateIfDML
IsUnfriendlyCall(c) ==
    c.op = "AnnotateIfDML" /\ IsDML(c.sql) /\ Len(c.keyspaceIDs) # 1

\* C3: the counter equals the number of AnnotateIfDML calls made so far on a
\* DML statement with 0 or at least 2 identifiers, and every call adds 1 to it
\* when it is such a call and leaves it alone otherwise, whatever the
\* throttled logger emitted.
C3_CounterCountsUnfriendlyCalls ==
    /\ [](count = Cardinality({i \in 1..Len(calls) : IsUnfriendlyCall(calls[i])}))
    /\ [][/\ Len(calls') = Len(calls) + 1
          /\ count' = count + (IF IsUnfriendlyCall(calls'[Len(calls')]) THEN 1 ELSE 0)
         ]_vars

C3_Witness ==
    /\ Len(calls) = 2
    /\ IsUnfriendlyCall(calls[1])
    /\ calls[2].op = "ExtractKeySpaceID"
    /\ count = 1
    /\ warnings = 0

\* C4: AnnotateIfDML returns a statement that is not DML unchanged, whatever
\* the identifier list.
C4_NonDMLUnchanged ==
    (Called /\ Last.op = "AnnotateIfDML" /\ ~IsDML(Last.sql))
        => ret = Last.sql

C4_Witness ==
    /\ Called
    /\ Last.op = "AnnotateIfDML"
    /\ ~IsDML(Last.sql)
    /\ Len(Last.keyspaceIDs) = 2
    /\ Last.sql = insert

\* C5 (as stated): for every statement s, id and trailingComments,
\* ExtractKeySpaceID(AddKeyspaceID(s, id, trailingComments)) is (id, nil).
C5_AddRoundTripEvery ==
    (Called /\ Last.op = "AddKeyspaceID")
        => ExtractKeySpaceID(ret) =
               [keyspaceID |-> Bytes(Last.keyspaceIDs[1]), err |-> NilError]

\* C5 (amended): the same for every statement s that holds neither the
\* keyspace delimiter nor the unfriendly sentinel and every trailingComments
\* (beginning with a space or not) such that "/" followed by trailingComments
\* does not hold the unfriendly sentinel.
C5_AddRoundTripClean ==
    (/\ Called
     /\ Last.op = "AddKeyspaceID"
     /\ ~HasKeyspaceID(Last.sql)
     /\ ~HasUnfriendly(Last.sql)
     /\ ~HasUnfriendly(<<"/">> \o Last.trailingComments))
        => ExtractKeySpaceID(ret) =
               [keyspaceID |-> Bytes(Last.keyspaceIDs[1]), err |-> NilError]

C5_Witness ==
    /\ Called
    /\ Last.op = "AddKeyspaceID"
    /\ Last.sql # <<>>
    /\ ~HasKeyspaceID(Last.sql)
    /\ ~HasUnfriendly(Last.sql)
    /\ Last.trailingComments = <<"A">>
    /\ Last.keyspaceIDs = <<(<<171, 0>>)>>

\* the text after the leftmost keyspace delimiter of s, up to the next space
\* or the end of s
CapturedText(s) ==
    LET p == CHOOSE i \in 1..Len(s) :
                 /\ SubSeq(s, i, i + Len(keyspaceIDLeftDelim) - 1) = keyspaceIDLeftDelim
                 /\ \A j \in 1..(i - 1) :
                        SubSeq(s, j, j + Len(keyspaceIDLeftDelim) - 1)
                            # keyspaceIDLeftDelim
        rest == SubSeq(s, p + Len(keyspaceIDLeftDelim), Len(s))
        n == CHOOSE k \in 0..Len(rest) :
                 /\ \A j \in 1..k : rest[j] # " "
                 /\ k = Len(rest) \/ rest[k + 1] = " "
    IN  SubSeq(rest, 1, n)

DigitsLower == <<"0", "1", "2", "3", "4", "5", "6", "7", "8", "9",
                 "a", "b", "c", "d", "e", "f">>
DigitsUpper == <<"0", "1", "2", "3", "4", "5", "6", "7", "8", "9",
                 "A", "B", "C", "D", "E", "F">>

IsHexDigit(c) == \E v \in 1..16 : c = DigitsLower[v] \/ c = DigitsUpper[v]
HexValue(c) == (CHOOSE v \in 1..16 : c = DigitsLower[v] \/ c = DigitsUpper[v]) - 1

IsValidHex(h) == Len(h) % 2 = 0 /\ \A i \in 1..Len(h) : IsHexDigit(h[i])

\* b is the byte sequence the hexadecimal text h denotes
Denotes(h, b) ==
    /\ Len(h) = 2 * Len(b)
    /\ \A i \in 1..Len(b) :
          /\ IsHexDigit(h[2 * i - 1])
          /\ IsHexDigit(h[2 * i])
          /\ b[i] = 16 * HexValue(h[2 * i - 1]) + HexValue(h[2 * i])

\* C6: the result of ExtractKeySpaceID is decided by hasKeyspaceID and
\* hasUnfriendly: both give (nil, ParseError); only hasKeyspaceID gives the
\* bytes the captured text denotes with a nil error, or (nil, ParseError) when
\* that text is not valid hex; only hasUnfriendly gives
\* (nil, ReplicationUnfriendlyError); neither gives (nil, ParseError).
C6_DecisionTable ==
    (Called /\ Last.op = "ExtractKeySpaceID")
        => LET s == Last.sql
           IN  CASE HasKeyspaceID(s) /\ HasUnfriendly(s) ->
                       ret = [keyspaceID |-> NilBytes,
                              err |-> ExtractKeySpaceIDParseError]
                 [] HasKeyspaceID(s) /\ ~HasUnfriendly(s) ->
                       IF IsValidHex(CapturedText(s))
                       THEN /\ ret.err = NilError
                            /\ ~ret.keyspaceID.null
                            /\ Denotes(CapturedText(s), ret.keyspaceID.bytes)
                       ELSE ret = [keyspaceID |-> NilBytes,
                                   err |-> ExtractKeySpaceIDParseError]
                 [] ~HasKeyspaceID(s) /\ HasUnfriendly(s) ->
                       ret = [keyspaceID |-> NilBytes,
                              err |-> ExtractKeySpaceIDReplicationUnfriendlyError]
                 [] OTHER ->
                       ret = [keyspaceID |-> NilBytes,
                              err |-> ExtractKeySpaceIDParseError]

C6_Witness ==
    /\ Called
    /\ Last.op = "ExtractKeySpaceID"
    /\ HasKeyspaceID(Last.sql)
    /\ HasUnfriendly(Last.sql)
    /\ CapturedText(Last.sql) = <<"0", "a">>
    /\ ret.err = ExtractKeySpaceIDParseError

\* c is the letter k of a keyword, in either case
SameLetter(c, k) ==
    \E i \in 1..Len(LowerCase) : LowerCase[i] = k /\ c \in {LowerCase[i], UpperCase[i]}

\* s is leading whitespace, then insert, update or delete in any case, then
\* a whitespace character
StartsWithDMLWord(s) ==
    \E lead \in 0..(Len(s) - 7) :
        /\ \A i \in 1..lead : IsSpace(s[i])
        /\ IsSpace(s[lead + 7])
        /\ \E keyword \in {insert, update, delete} :
              \A i \in 1..6 : SameLetter(s[lead + i], keyword[i])

\* C7: IsDML(s) is true exactly when s, after its leading whitespace, holds a
\* whitespace character and the text before the first one is insert, update
\* or delete in any case.
C7_IsDMLFirstWord ==
    (Called /\ Last.op = "IsDML") => (ret = StartsWithDMLWord(Last.sql))

C7_Witness ==
    /\ Called
    /\ Last.op = "IsDML"
    /\ ret = TRUE
    /\ Len(Last.sql) > 7
    /\ IsSpace(Last.sql[1])
    /\ Last.sql[2] = "D"

\* C8 (as stated): for a DML statement s and an identifier list of length 0 or
\* at least 2, AnnotateIfDML returns s, one space, and the unfriendly sentinel.
C8_UnfriendlyAfterOneSpace ==
    (AnnotatedDML /\ Len(Last.keyspaceIDs) # 1)
        => ret = Last.sql \o <<" ">> \o filteredReplicationUnfriendlyAnnotation

\* C8 (amended): for a DML statement s and an identifier list of length 0 or
\* at least 2, AnnotateIfDML returns s followed at once by the unfriendly
\* sentinel, with no space between them, no keyspace data and nothing after.
C8_UnfriendlyAppended ==
    (AnnotatedDML /\ Len(Last.keyspaceIDs) # 1)
        => /\ Len(ret) = Len(Last.sql) + 46
           /\ SubSeq(ret, 1, Len(Last.sql)) = Last.sql
           /\ SubSeq(ret, Len(Last.sql) + 1, Len(ret))
                  = filteredReplicationUnfriendlyAnnotation

C8_Witness ==
    /\ AnnotatedDML
    /\ Last.keyspaceIDs = <<>>
    /\ ~IsSpace(Last.sql[Len(Last.sql)])
    /\ ret[Len(Last.sql) + 1] = "/"

\* out is s, " /* vtgate:: keyspace_id:", the lowercase hexadecimal text of
\* id (two characters a byte), " */" and tc
IsKeyspaceAnnotated(out, s, id, tc) ==
    LET n == Len(s)
        m == 2 * Len(id)
        hexText == SubSeq(out, n + 26, n + 25 + m)
    IN  /\ Len(out) = n + 25 + m + 3 + Len(tc)
        /\ SubSeq(out, 1, n) = s
        /\ SubSeq(out, n + 1, n + 25) = <<" ">> \o keyspaceIDLeftDelim
        /\ Denotes(hexText, id)
        /\ \A i \in 1..m : \E v \in 1..16 : hexText[i] = DigitsLower[v]
        /\ SubSeq(out, n + 25 + m + 1, n + 25 + m + 3) = <<" ", "*", "/">>
        /\ SubSeq(out, n + 25 + m + 4, Len(out)) = tc

\* C9: AddKeyspaceID(s, id, tc) is s, " /* vtgate:: keyspace_id:", hex(id),
\* " */" and tc, and AnnotateIfDML(s, [id]) on a DML statement is
\* AddKeyspaceID(s, id, "").
C9_KeyspaceMarkerFormat ==
    /\ (Called /\ Last.op = "AddKeyspaceID")
          => IsKeyspaceAnnotated(ret, Last.sql, Last.keyspaceIDs[1],
                                 Last.trailingComments)
    /\ (AnnotatedDML /\ Len(Last.keyspaceIDs) = 1)
          => IsKeyspaceAnnotated(ret, Last.sql, Last.keyspaceIDs[1], <<>>)

C9_Witness ==
    /\ Called
    /\ Last.op = "AddKeyspaceID"
    /\ Last.keyspaceIDs = <<(<<10>>)>>
    /\ Last.trailingComments = <<" ", "x">>
    /\ Last.sql # <<>>

\* the statement the run started from
FirstStatement == IF Called THEN calls[1].sql ELSE sql

\* C10 (as stated): from a statement holding neither the keyspace delimiter
\* nor the unfriendly sentinel, no number of AnnotateIfDML calls, each on the
\* output of the one before, yields a statement holding both.
C10_NeverBothAfterAnnotations ==
    (/\ ~HasKeyspaceID(FirstStatement)
     /\ ~HasUnfriendly(FirstStatement)
     /\ \A i \in 1..Len(calls) : calls[i].op = "AnnotateIfDML")
        => ~(HasKeyspaceID(sql) /\ HasUnfriendly(sql))

\* C10 (amended): one AnnotateIfDML call on a statement holding neither the
\* keyspace delimiter nor the unfriendly sentinel yields a statement that
\* does not hold both.
C10_NotBothAfterOneAnnotation ==
    (/\ Called
     /\ Last.op = "AnnotateIfDML"
     /\ ~HasKeyspaceID(Last.sql)
     /\ ~HasUnfriendly(Last.sql))
        => ~(HasKeyspaceID(ret) /\ HasUnfriendly(ret))

C10_Witness ==
    /\ AnnotatedDML
    /\ ~HasKeyspaceID(Last.sql)
    /\ ~HasUnfriendly(Last.sql)
    /\ Len(Last.keyspaceIDs) = 2
    /\ HasUnfriendly(ret)
    /\ ~HasKeyspaceID(ret)

====
